---- MODULE Spec2Model ----
(***************************************************************************)
(* notify_on_page_change: the scheduling loop of main() and the per-page   *)
(* check of check_change(), as a state machine.                            *)
(*                                                                         *)
(* Text is a sequence of one-character strings.  Raw page markup is a      *)
(* sequence of text characters and of the two tokens SCRIPT_OPEN and       *)
(* SCRIPT_CLOSE, which stand for the opening and closing tag of a script   *)
(* or style element.  Time is counted in hours (the unit of                *)
(* check_every_x_hours) from the present: datetime.now() is always 0, a    *)
(* timestamp taken h hours ago is -h, and when time passes every timestamp *)
(* the process holds moves back by as much.  The clock never runs          *)
(* backwards.                                                              *)
(***************************************************************************)
EXTENDS Integers, Sequences, FiniteSets, TLC

\* ------------------------------------------------------------------ bounds
MaxPages == 2       \* page sections in settings.ini
MaxInterval == 2    \* largest check_every_x_hours
MaxDelay == 1       \* longest fetch and longest oversleep in Spec, in hours
MaxRawLen == 2      \* longest raw content served in ContentSpec
MaxDiffLines == 3   \* most lines of a page in DiffSpec
MaxMarkupLen == 3   \* longest markup fetched in ExtractSpec

\* -------------------------------------------------------------- characters
LF == "\n"
CR == "\r"
SP == " "
TAB == "\t"
SCRIPT_OPEN == "<script>"
SCRIPT_CLOSE == "</script>"

\* last_checked of a page not yet checked; no timestamp comes near it.
None == -1000

\* ------------------------------------------------------- text operations
\* The line boundaries of str.splitlines() that the model's alphabet holds.
LineBoundaries == {LF, CR}

\* Index of the first line boundary of s, 0 when it has none.
RECURSIVE FirstBoundary(_, _)
FirstBoundary(s, k) ==
    IF k > Len(s) THEN 0
    ELSE IF s[k] \in LineBoundaries THEN k
    ELSE FirstBoundary(s, k + 1)

\* str.splitlines(): CR LF is one boundary; no empty last line.
RECURSIVE splitlines(_)
splitlines(s) ==
    IF s = <<>> THEN <<>>
    ELSE LET k == FirstBoundary(s, 1) IN
         IF k = 0 THEN <<s>>
         ELSE LET skip == IF s[k] = CR /\ k < Len(s) /\ s[k + 1] = LF
                          THEN 2 ELSE 1
              IN <<SubSeq(s, 1, k - 1)>> \o splitlines(SubSeq(s, k + skip, Len(s)))

\* The characters line.strip(' ') removes: the space, and nothing else.
StripChars == {SP}

RECURSIVE lstrip(_)
lstrip(line) ==
    IF line # <<>> /\ Head(line) \in StripChars THEN lstrip(Tail(line)) ELSE line

RECURSIVE rstrip(_)
rstrip(line) ==
    IF line # <<>> /\ line[Len(line)] \in StripChars
    THEN rstrip(SubSeq(line, 1, Len(line) - 1)) ELSE line

strip(line) == rstrip(lstrip(line))

\* '\n'.join(lines)
RECURSIVE join(_)
join(lines) ==
    IF lines = <<>> THEN <<>>
    ELSE IF Len(lines) = 1 THEN lines[1]
    ELSE lines[1] \o <<LF>> \o join(Tail(lines))

\* soup(['script', 'style']) decomposed, then soup.get_text(): the text
\* outside script and style elements, in document order.  An element left
\* open runs to the end of the document; a stray closing tag is dropped.
RECURSIVE TextOutside(_, _)
TextOutside(html, inside) ==
    IF html = <<>> THEN <<>>
    ELSE IF Head(html) = SCRIPT_OPEN THEN TextOutside(Tail(html), TRUE)
    ELSE IF Head(html) = SCRIPT_CLOSE THEN TextOutside(Tail(html), FALSE)
    ELSE IF inside THEN TextOutside(Tail(html), TRUE)
    ELSE <<Head(html)>> \o TextOutside(Tail(html), FALSE)

get_text(html) == TextOutside(html, FALSE)

\* [line.strip(' ') for line in lines if len(line.strip(' ')) > 0]
RECURSIVE StripNonEmpty(_)
StripNonEmpty(lines) ==
    IF lines = <<>> THEN <<>>
    ELSE IF Len(strip(Head(lines))) > 0
         THEN <<strip(Head(lines))>> \o StripNonEmpty(Tail(lines))
         ELSE StripNonEmpty(Tail(lines))

\* The lines get_readable_page joins.
ReadableLines(html) == StripNonEmpty(splitlines(get_text(html)))

get_readable_page(html) == join(ReadableLines(html))

\* ------------------------------------------------------------ file access
\* open(path, 'w').write(text): each LF becomes os.linesep (POSIX: LF).
os_linesep == <<LF>>

RECURSIVE TextWrite(_)
TextWrite(text) ==
    IF text = <<>> THEN <<>>
    ELSE (IF Head(text) = LF THEN os_linesep ELSE <<Head(text)>>)
         \o TextWrite(Tail(text))

\* open(path, 'r').read(): universal newlines, CR LF and CR become LF.
RECURSIVE TextRead(_)
TextRead(bytes) ==
    IF bytes = <<>> THEN <<>>
    ELSE IF Head(bytes) = CR
         THEN <<LF>> \o TextRead(IF Len(bytes) > 1 /\ bytes[2] = LF
                                 THEN Tail(Tail(bytes)) ELSE Tail(bytes))
         ELSE <<Head(bytes)>> \o TextRead(Tail(bytes))

\* ------------------------------------------------------------ difflib.ndiff
\* difflib of Python 3.0 to 3.12.  The sequences here stay below the 200
\* elements from which SequenceMatcher sets popular elements aside.

\* Length of the common junk-free run of a and b that starts at a[i], b[j].
RECURSIVE RunLength(_, _, _, _, _)
RunLength(a, b, i, j, junk) ==
    IF i <= Len(a) /\ j <= Len(b) /\ a[i] = b[j] /\ b[j] \notin junk
    THEN 1 + RunLength(a, b, i + 1, j + 1, junk) ELSE 0

\* Number of matching junk elements just before a[i], b[j].
RECURSIVE JunkBefore(_, _, _, _, _)
JunkBefore(a, b, i, j, junk) ==
    IF i > 1 /\ j > 1 /\ b[j - 1] \in junk /\ a[i - 1] = b[j - 1]
    THEN 1 + JunkBefore(a, b, i - 1, j - 1, junk) ELSE 0

\* Number of matching junk elements from a[i], b[j] on.
RECURSIVE JunkFrom(_, _, _, _, _)
JunkFrom(a, b, i, j, junk) ==
    IF i <= Len(a) /\ j <= Len(b) /\ b[j] \in junk /\ a[i] = b[j]
    THEN 1 + JunkFrom(a, b, i + 1, j + 1, junk) ELSE 0

\* The sizes of the junk-free common blocks of a and b, and 0.
RunLengths(a, b, junk) ==
    {0} \cup {RunLength(a, b, p[1], p[2], junk) : p \in (1 .. Len(a)) \X (1 .. Len(b))}

\* Where the junk-free common blocks of size k start.
BlockStarts(a, b, junk, k) ==
    {p \in (1 .. Len(a)) \X (1 .. Len(b)) : RunLength(a, b, p[1], p[2], junk) = k}

Largest(S) == CHOOSE x \in S : \A y \in S : y <= x

\* The pair earliest in a, of those the one earliest in b.
Earliest(S) ==
    CHOOSE p \in S : \A q \in S : p[1] < q[1] \/ (p[1] = q[1] /\ p[2] <= q[2])

\* The block of size k at a[i], b[j] with the matching junk on either side.
WithJunk(i, j, k, before, after) ==
    [i |-> i - before, j |-> j - before, size |-> before + k + after]

\* The block of size k that starts earliest, widened by junk; of size 0,
\* the start of both sequences.
BestBlock(a, b, junk, k, start) ==
    WithJunk(start[1], start[2], k,
             JunkBefore(a, b, start[1], start[2], junk),
             JunkFrom(a, b, start[1] + k, start[2] + k, junk))

LongestBlock(a, b, junk, k) ==
    BestBlock(a, b, junk, k,
              IF k = 0 THEN <<1, 1>> ELSE Earliest(BlockStarts(a, b, junk, k)))

\* SequenceMatcher.find_longest_match over all of a and b: the longest
\* junk-free common block, of those the one starting earliest in a, of those
\* the one earliest in b; then the matching junk on either side of it.
find_longest_match(a, b, junk) == LongestBlock(a, b, junk, Largest(RunLengths(a, b, junk)))

\* The elements of s before position i, and those from position i on.
Upto(s, i) == SubSeq(s, 1, i - 1)

From(s, i) == SubSeq(s, i, Len(s))

\* The total size of SequenceMatcher.get_matching_blocks: the longest block
\* m, and the blocks to its left and to its right.
RECURSIVE MatchCount(_, _, _)
MatchCountAround(a, b, junk, m) ==
    IF m.size = 0 THEN 0
    ELSE MatchCount(Upto(a, m.i), Upto(b, m.j), junk)
         + m.size
         + MatchCount(From(a, m.i + m.size), From(b, m.j + m.size), junk)

MatchCount(a, b, junk) == MatchCountAround(a, b, junk, find_longest_match(a, b, junk))

\* IS_CHARACTER_JUNK: the space and the tab.
CharJunk == {SP, TAB}

\* SequenceMatcher.ratio of two lines, 2.0 * M / T, kept as M2 over T.
ratio(aline, bline) ==
    [M2 |-> 2 * MatchCount(aline, bline, CharJunk), T |-> Len(aline) + Len(bline)]

\* r > hundredths / 100
RatioAbove(r, hundredths) == r.M2 * 100 > hundredths * r.T

\* r < hundredths / 100
RatioBelow(r, hundredths) == r.M2 * 100 < hundredths * r.T

\* r > s
RatioGreater(r, s) == r.M2 * s.T > s.M2 * r.T

Repeat(c, n) == [k \in 1 .. n |-> c]

\* The tag strings Differ._fancy_replace builds from the opcodes of a pair
\* of lines: "^" replaced, "-" deleted, "+" inserted, " " equal.
RECURSIVE LineTags(_, _)
EqualTags(left, size, right) ==
    [atags |-> left.atags \o Repeat(SP, size) \o right.atags,
     btags |-> left.btags \o Repeat(SP, size) \o right.btags]

LineTagsAround(aline, bline, m) ==
    IF m.size = 0
    THEN IF aline # <<>> /\ bline # <<>>
         THEN [atags |-> Repeat("^", Len(aline)), btags |-> Repeat("^", Len(bline))]
         ELSE [atags |-> Repeat("-", Len(aline)), btags |-> Repeat("+", Len(bline))]
    ELSE EqualTags(LineTags(Upto(aline, m.i), Upto(bline, m.j)), m.size,
                   LineTags(From(aline, m.i + m.size), From(bline, m.j + m.size)))

LineTags(aline, bline) ==
    LineTagsAround(aline, bline, find_longest_match(aline, bline, CharJunk))

\* str.isspace for the characters of the model.
Whitespace == {SP, TAB, LF, CR}

\* _keep_original_ws: a blank tag under a whitespace character becomes
\* that character.
keep_original_ws(line, tags) ==
    [k \in 1 .. Len(tags) |->
        IF tags[k] = SP /\ line[k] \in Whitespace THEN line[k] ELSE tags[k]]

\* str.rstrip()
RECURSIVE rstrip_whitespace(_)
rstrip_whitespace(s) ==
    IF s # <<>> /\ s[Len(s)] \in Whitespace
    THEN rstrip_whitespace(SubSeq(s, 1, Len(s) - 1)) ELSE s

\* A "? " line of tags, which ends in a newline, unless the tags are blank.
TagLine(tags) == IF tags # <<>> THEN <<<<"?", SP>> \o tags \o <<LF>>>> ELSE <<>>

\* Differ._qformat: the two lines, each followed by its line of tags.
qformat(aline, bline, atags, btags) ==
    <<<<"-", SP>> \o aline>>
    \o TagLine(rstrip_whitespace(keep_original_ws(aline, atags)))
    \o <<<<"+", SP>> \o bline>>
    \o TagLine(rstrip_whitespace(keep_original_ws(bline, btags)))

qformat_tags(aline, bline, tags) == qformat(aline, bline, tags.atags, tags.btags)

\* Differ._dump: every line with its two-character tag.
dump(tag, lines) == [n \in 1 .. Len(lines) |-> <<tag, SP>> \o lines[n]]

\* Variant: the deleted lines always come first.
plain_replace_deletes_first(a, b) == dump("-", a) \o dump("+", b)

\* Differ._plain_replace: the shorter side is dumped first.
plain_replace(a, b) ==
    IF Len(b) < Len(a) THEN dump("+", b) \o dump("-", a)
    ELSE dump("-", a) \o dump("+", b)

\* The pair that comes first going through b, and for each of its lines
\* through a.
FirstPair(S) ==
    CHOOSE p \in S : \A q \in S : p[2] < q[2] \/ (p[2] = q[2] /\ p[1] <= q[1])

\* The pairs of equal lines of a and b.
EqualPairs(a, b) == {p \in (1 .. Len(a)) \X (1 .. Len(b)) : a[p[1]] = b[p[2]]}

\* The pairs of unequal lines of a ratio above 0.74.
ClosePairs(a, b) ==
    {p \in (1 .. Len(a)) \X (1 .. Len(b)) :
        a[p[1]] # b[p[2]] /\ RatioAbove(ratio(a[p[1]], b[p[2]]), 74)}

\* Of these pairs, those of the highest ratio.
Closest(a, b, close) ==
    {p \in close : \A q \in close :
        ~RatioGreater(ratio(a[q[1]], b[q[2]]), ratio(a[p[1]], b[p[2]]))}

\* Differ._fancy_helper, with Differ._fancy_replace for two non-empty blocks
\* of lines.  The first pair of unequal lines among those of the highest
\* ratio is the synch point when that ratio is above 0.74 and not below
\* 0.75; otherwise the first pair of equal lines is; without either, a
\* plain replace.
RECURSIVE fancy_helper(_, _)
Synched(a, b, best, marked) ==
    fancy_helper(Upto(a, best[1]), Upto(b, best[2]))
    \o (IF marked
        THEN qformat_tags(a[best[1]], b[best[2]], LineTags(a[best[1]], b[best[2]]))
        ELSE <<<<SP, SP>> \o a[best[1]]>>)
    \o fancy_helper(From(a, best[1] + 1), From(b, best[2] + 1))

fancy_replace_on(a, b, closest, equal) ==
    IF closest # {} /\ ~RatioBelow(ratio(a[FirstPair(closest)[1]], b[FirstPair(closest)[2]]), 75)
    THEN Synched(a, b, FirstPair(closest), TRUE)
    ELSE IF equal # {} THEN Synched(a, b, FirstPair(equal), FALSE)
    ELSE plain_replace(a, b)

fancy_replace(a, b) ==
    fancy_replace_on(a, b, Closest(a, b, ClosePairs(a, b)), EqualPairs(a, b))

fancy_helper(a, b) ==
    IF a = <<>> THEN dump("+", b)
    ELSE IF b = <<>> THEN dump("-", a)
    ELSE fancy_replace(a, b)

\* Differ.compare over the opcodes of the matching blocks of the two lists
\* of lines, m being the longest block; no line is junk.
RECURSIVE ndiff(_, _)
compare_around(a, b, m) ==
    IF m.size = 0
    THEN IF a # <<>> /\ b # <<>> THEN fancy_replace(a, b)
         ELSE IF a # <<>> THEN dump("-", a)
         ELSE dump("+", b)
    ELSE ndiff(Upto(a, m.i), Upto(b, m.j))
         \o dump(SP, SubSeq(a, m.i, m.i + m.size - 1))
         \o ndiff(From(a, m.i + m.size), From(b, m.j + m.size))

ndiff(a, b) == compare_around(a, b, find_longest_match(a, b, {}))

\* ------------------------------------------------------------------ state
VARIABLES
    settings,            \* settings.ini as main() finds it (NoSettings once read)
    pages_to_check,      \* main: the CheckPage list, in settings.ini order
    page_files,          \* PAGES_DIR: index of the page -> content of its file
    web,                 \* the responses the remote servers may give
    delays,              \* the hours a fetch may take, or a sleep run over
    pc,                  \* the statement the process is at
    page,                \* main: pages the first for loop has taken
    caller,              \* the loop check_change returns to
    next_page,           \* main: page chosen by the while loop (0: None)
    next_page_time_due,  \* main
    sleep_seconds,       \* main
    page_name,           \* check_change: the page under check (0: none yet)
    new_page_html,       \* check_change
    status_code,         \* request.status_code of line 140 (0: no response)
    new_page_readable,   \* check_change
    old_page_readable,   \* check_change
    log,                 \* g_logger records of the current check
    outbox,              \* messages handed to send_email in the current check
    started_at,          \* history: the clock when the current check started
    selected_at,         \* history: the clock when next_page was chosen
    files_at_start,      \* history: page_files when the current check started
    last_html,           \* history: page -> raw content of its last good fetch
    last_file            \* history: page -> its file after that check

vars == <<settings, pages_to_check, page_files, web, delays, pc, page, caller, next_page,
          next_page_time_due, sleep_seconds, page_name, new_page_html, status_code,
          new_page_readable, old_page_readable, log, outbox, started_at,
          selected_at, files_at_start, last_html, last_file>>

Undefined == <<"undefined">>

\* ------------------------------------------------------------ input spaces
SeqsUpTo(S, n) == UNION {[1 .. k -> S] : k \in 0 .. n}
PartialFns(D, R) == UNION {[S -> R] : S \in SUBSET D}

\* CheckPage(page_name, url, check_interval_hours, None); the name of a page
\* is its index in pages_to_check, its url is left out.
CheckPage(check_interval_hours) ==
    [check_interval_hours |-> check_interval_hours, last_checked |-> None]

\* An option settings.ini does not have.
Missing == <<"missing">>

\* The config object once main() has built pages_to_check from it.
NoSettings == [email |-> "read", sections |-> <<>>]

Digits == <<"0", "1", "2", "3", "4", "5", "6", "7", "8", "9">>

\* Values of check_every_x_hours: the hours up to the bound, with and
\* without the unit, and values int() or the test of line 250 turns down.
IntervalStrings ==
    {<<>>, <<"h">>, <<"x">>, <<"-", "1">>, <<"0", "1">>, <<"1", ".", "5">>}
    \cup {<<Digits[h + 1]>> : h \in 0 .. MaxInterval}
    \cup {<<Digits[h + 1], "h">> : h \in 0 .. MaxInterval}

\* A page section: whether it has a url, and its check_every_x_hours.
PageSections ==
    {[url |-> TRUE, check_every_x_hours |-> v] : v \in IntervalStrings \cup {Missing}}
    \cup {[url |-> FALSE, check_every_x_hours |-> <<"1">>]}

\* The sections Program and Email Server: with every option, with one
\* missing, or with a port that is no number.
EmailOptions == {"given", "missing", "bad_port"}

\* Every settings.ini of up to MaxPages page sections.
Settings ==
    {[email |-> e, sections |-> secs] :
        e \in EmailOptions, secs \in SeqsUpTo(PageSections, MaxPages)}

\* Every settings.ini of MaxPages pages to check every hour or every
\* MaxInterval hours.
LiveSettings ==
    {[email |-> "given", sections |-> secs] :
        secs \in [1 .. MaxPages -> {[url |-> TRUE, check_every_x_hours |-> <<Digits[h + 1]>>] :
                                      h \in {1, MaxInterval}}]}

\* One page to check every hour.
HourlySettings ==
    [email |-> "given",
     sections |-> <<[url |-> TRUE, check_every_x_hours |-> <<"1", "h">>]>>]

WebChars == {"a", SP, LF, CR}
RawContents == SeqsUpTo(WebChars, MaxRawLen)

\* Two versions of a page.
PageVersions == {<<"a">>, <<"b">>}

\* The status of a response: requests.get returns the response of the
\* server whatever its status, an error page included.
HTTP_OK == 200
HTTP_NOT_FOUND == 404
StatusCodes == {HTTP_OK, HTTP_NOT_FOUND}

\* The responses of these statuses and contents.
Responses(codes, contents) ==
    {[status_code |-> code, text |-> html] : code \in codes, html \in contents}

\* What the markup ExtractSpec fetches is made of.
MarkupChars == {"a", SP, TAB, LF, SCRIPT_OPEN, SCRIPT_CLOSE}

\* The lines of the pages DiffSpec compares.
DiffLines == {<<"A">>, <<"B">>, <<"C">>, <<"X">>}

\* ------------------------------------------------------------------- main
Pages == 1 .. Len(pages_to_check)

\* datetime.datetime.now(): the present is the origin of the clock.
now == 0

\* A timestamp after h more hours have passed.
Ago(t, h) == IF t = None THEN None ELSE t - h

\* h hours pass while the process is blocked (in time.sleep, in requests.get).
Elapse(h) ==
    /\ pages_to_check' = [p \in DOMAIN pages_to_check |->
                             [pages_to_check[p] EXCEPT !.last_checked = Ago(@, h)]]
    /\ next_page_time_due' = Ago(next_page_time_due, h)
    /\ started_at' = Ago(started_at, h)
    /\ selected_at' = Ago(selected_at, h)

\* str.rstrip('h')
RECURSIVE rstrip_h(_)
rstrip_h(s) ==
    IF s # <<>> /\ s[Len(s)] = "h" THEN rstrip_h(SubSeq(s, 1, Len(s) - 1)) ELSE s

DigitChars == {Digits[n] : n \in 1 .. Len(Digits)}

DigitValue(c) == (CHOOSE n \in 1 .. Len(Digits) : Digits[n] = c) - 1

IsDigits(s) == s # <<>> /\ \A n \in 1 .. Len(s) : s[n] \in DigitChars

\* The value of a string of decimal digits.
RECURSIVE DecimalValue(_)
DecimalValue(s) ==
    IF s = <<>> THEN 0
    ELSE 10 * DecimalValue(SubSeq(s, 1, Len(s) - 1)) + DigitValue(s[Len(s)])

\* int(s) raises ValueError unless s is a string of digits after an
\* optional sign.
IsIntLiteral(s) ==
    IsDigits(s) \/ (s # <<>> /\ s[1] \in {"-", "+"} /\ IsDigits(Tail(s)))

int(s) ==
    IF s[1] = "-" THEN 0 - DecimalValue(Tail(s))
    ELSE IF s[1] = "+" THEN DecimalValue(Tail(s))
    ELSE DecimalValue(s)

\* Variant: an interval of 0 hours is let through.
ValidInterval_nonnegative(hours) == ~(hours < 0)

\* Line 250: if check_interval_hours < 1: raise ValueError
ValidInterval(hours) == ~(hours < 1)

\* Lines 249-251 raise ValueError for the string without its trailing 'h's:
\* int() does, or line 251.
RaisesValueError(stripped) == ~(IsIntLiteral(stripped) /\ ValidInterval(int(stripped)))

\* Line 249.
check_interval_hours(check_interval_str) == int(rstrip_h(check_interval_str))

\* Lines 237-254 raise KnownError for this section.
SectionRaises(section) ==
    \/ ~section.url
    \/ section.check_every_x_hours = Missing
    \/ RaisesValueError(rstrip_h(section.check_every_x_hours))

\* Lines 232-254 raise KnownError: no page section, or one turned down.
SectionsRaise(sections) ==
    sections = <<>> \/ \E n \in 1 .. Len(sections) : SectionRaises(sections[n])

\* Lines 226-259: the page list of the sections.
PagesOf(sections) ==
    [n \in 1 .. Len(sections) |->
        CheckPage(check_interval_hours(sections[n].check_every_x_hours))]

\* An exception nothing catches: main() ends and the process with it.  What
\* the process held in memory is gone; the files and the clock remain.
Terminate ==
    /\ pc' = "terminated"
    /\ pages_to_check' = <<>>
    /\ page' = 0
    /\ caller' = "for"
    /\ next_page' = 0
    /\ next_page_time_due' = None
    /\ sleep_seconds' = 0
    /\ page_name' = 0
    /\ new_page_html' = Undefined
    /\ status_code' = 0
    /\ new_page_readable' = Undefined
    /\ old_page_readable' = Undefined
    /\ log' = <<>>
    /\ outbox' = <<>>
    /\ started_at' = None
    /\ selected_at' = None
    /\ files_at_start' = <<>>
    /\ last_html' = <<>>
    /\ last_file' = <<>>
    /\ UNCHANGED <<web, delays>>

\* Lines 288-291: main() raised KnownError or ConfigOptionError; the error
\* is logged and the program ends.
Exit ==
    /\ pc' = "exit"
    /\ UNCHANGED <<settings, pages_to_check, page_files, web, delays, page, caller,
                   next_page, next_page_time_due, sleep_seconds, page_name,
                   new_page_html, status_code, new_page_readable,
                   old_page_readable, log, outbox, started_at, selected_at,
                   files_at_start, last_html, last_file>>

\* Lines 260-261 are reached with the page list built.
StartWith(pages) ==
    /\ pages_to_check' = pages
    /\ settings' = NoSettings
    /\ pc' = "for"
    /\ UNCHANGED <<page_files, web, delays, page, caller, next_page,
                   next_page_time_due, sleep_seconds, page_name, new_page_html,
                   status_code, new_page_readable, old_page_readable, log, outbox,
                   started_at, selected_at, files_at_start, last_html, last_file>>

\* Lines 192-259: the options of the mail account are read (a missing one
\* raises ConfigOptionError, int(server_port) an uncaught ValueError), the
\* account is tried (KnownError when the login fails) and the page list is
\* built.
ReadConfig ==
    /\ pc = "config"
    /\ \E login_ok \in BOOLEAN :
          IF settings.email = "bad_port" THEN Terminate /\ UNCHANGED <<settings, page_files>>
          ELSE IF settings.email = "missing" \/ ~login_ok
                  \/ SectionsRaise(settings.sections)
          THEN Exit
          ELSE StartWith(PagesOf(settings.sections))

\* page.last_checked + datetime.timedelta(hours=page.check_interval_hours)
time_due(p) == p.last_checked + p.check_interval_hours

\* Variant: time_due <= next_page_time_due.
IsEarlier_or_equal(due, next_due) == due <= next_due

\* time_due < next_page_time_due
IsEarlier(due, next_due) == due < next_due

\* The for loop of lines 269-274 from page k on; best is next_page so far.
RECURSIVE ScanPages(_, _, _)
ScanPages(pages, k, best) ==
    IF k > Len(pages) THEN best
    ELSE ScanPages(pages, k + 1,
                   IF best = 0 \/ IsEarlier(time_due(pages[k]), time_due(pages[best]))
                   THEN k ELSE best)

\* Variant: the page is rescheduled from its due time, not from the clock.
Stamp_from_due(pages, p, t) ==
    [pages EXCEPT ![p].last_checked =
        IF @ = None THEN t ELSE @ + pages[p].check_interval_hours]

\* Variant: a page is stamped at its first check only.
Stamp_first_only(pages, p, t) ==
    [pages EXCEPT ![p].last_checked = IF @ = None THEN t ELSE @]

\* page.last_checked = datetime.datetime.now()
Stamp(pages, p, t) == [pages EXCEPT ![p].last_checked = t]

\* A new call of check_change, and the history of its start.
EnterCheck(p, from) ==
    /\ pc' = "fetch"
    /\ caller' = from
    /\ page_name' = p
    /\ started_at' = now
    /\ files_at_start' = page_files
    /\ UNCHANGED <<new_page_html, status_code, new_page_readable, old_page_readable, log,
                   outbox>>

\* Variant: the first round stamps a page that has a stored file and goes
\* on without checking it.
ForNext_skips_stored ==
    /\ pc = "for"
    /\ page < Len(pages_to_check)
    /\ page' = page + 1
    /\ pages_to_check' = Stamp(pages_to_check, page + 1, now)
    /\ IF page + 1 \in DOMAIN page_files
       THEN UNCHANGED <<pc, caller, page_name, started_at, files_at_start,
                        new_page_html, status_code, new_page_readable,
                        old_page_readable, log, outbox>>
       ELSE EnterCheck(page + 1, "for")
    /\ UNCHANGED <<page_files, web, settings, delays, next_page, next_page_time_due,
                   sleep_seconds, selected_at, last_html, last_file>>

\* Lines 261-263: the next page of the first round is stamped and checked.
ForNext ==
    /\ pc = "for"
    /\ page < Len(pages_to_check)
    /\ page' = page + 1
    /\ pages_to_check' = Stamp(pages_to_check, page + 1, now)
    /\ EnterCheck(page + 1, "for")
    /\ UNCHANGED <<page_files, web, settings, delays, next_page, next_page_time_due,
                   sleep_seconds, selected_at, last_html, last_file>>

\* Line 261 with the list exhausted: on to the while loop.
ForEnd ==
    /\ pc = "for"
    /\ page = Len(pages_to_check)
    /\ pc' = "while"
    /\ UNCHANGED <<pages_to_check, page_files, web, settings, delays, page, caller, next_page,
                   next_page_time_due, sleep_seconds, page_name, new_page_html, status_code,
                   new_page_readable, old_page_readable, log, outbox, started_at,
                   selected_at, files_at_start, last_html, last_file>>

\* Variant: no sleep for a wait of an hour or less.
NeedsSleep_over_an_hour(seconds) == seconds > 1

\* if sleep_seconds > 0
NeedsSleep(seconds) == seconds > 0

\* Lines 266-278: the page due first, and the time to sleep until then.
SelectNext ==
    /\ pc = "while"
    /\ LET chosen == ScanPages(pages_to_check, 1, 0)
           due == time_due(pages_to_check[chosen])
       IN /\ next_page' = chosen
          /\ next_page_time_due' = due
          /\ sleep_seconds' = due - now
          /\ pc' = IF NeedsSleep(due - now) THEN "sleep" ELSE "stamp"
    /\ selected_at' = now
    /\ UNCHANGED <<pages_to_check, page_files, web, settings, delays, page, caller, page_name,
                   new_page_html, status_code, new_page_readable, old_page_readable, log,
                   outbox, started_at, files_at_start, last_html, last_file>>

\* Lines 279-281: time.sleep returns after sleep_seconds, or later.
Sleep ==
    /\ pc = "sleep"
    /\ \E late \in delays : Elapse(sleep_seconds + late)
    /\ pc' = "stamp"
    /\ UNCHANGED <<page_files, web, settings, delays, page, caller, next_page, sleep_seconds,
                   page_name, new_page_html, status_code, new_page_readable,
                   old_page_readable, log, outbox, files_at_start, last_html,
                   last_file>>

\* Lines 283-284: the chosen page is stamped and checked.  next_page,
\* next_page_time_due and sleep_seconds are not read again before lines
\* 266-276 assign them anew: they are forgotten here.
StampNext ==
    /\ pc = "stamp"
    /\ pages_to_check' = Stamp(pages_to_check, next_page, now)
    /\ EnterCheck(next_page, "while")
    /\ next_page' = 0
    /\ next_page_time_due' = None
    /\ sleep_seconds' = 0
    /\ selected_at' = None
    /\ UNCHANGED <<page_files, web, settings, delays, page, last_html, last_file>>

\* ----------------------------------------------------------- check_change
EMAIL_SUBJECT == "notify_on_page_change"

\* '{}: <text>'.format(page_name), with the ndiff lines of a changed page.
Message(p, text, differences) ==
    [page_name |-> p, text |-> text, differences |-> differences]

LogRecord(level, message) == [level |-> level, message |-> message]

Put(f, p, v) == [q \in DOMAIN f \cup {p} |-> IF q = p THEN v ELSE f[q]]

\* Variant: a message the SMTP server refused is handed over once more.
send_email_retries(message, logged) ==
    \E sent \in BOOLEAN :
       /\ outbox' = IF sent
                    THEN Append(outbox, [subject |-> EMAIL_SUBJECT, body |-> message])
                    ELSE outbox \o <<[subject |-> EMAIL_SUBJECT, body |-> message],
                                     [subject |-> EMAIL_SUBJECT, body |-> message]>>
       /\ log' = IF sent THEN logged
                 ELSE Append(logged, LogRecord("error",
                                 Message(0, "Unable to send email", <<>>)))

\* send_email, called with the log as the caller left it: the message is
\* handed to the SMTP server; a failure there is logged and swallowed.
send_email(message, logged) ==
    /\ outbox' = Append(outbox, [subject |-> EMAIL_SUBJECT, body |-> message])
    /\ \E sent \in BOOLEAN :
          log' = IF sent THEN logged
                 ELSE Append(logged, LogRecord("error",
                                 Message(0, "Unable to send email", <<>>)))

\* Lines 140-141, no exception: the server answers with some content.
RequestsGet ==
    /\ pc = "fetch"
    /\ \E took \in delays : Elapse(took)
    /\ \E request \in web :
          /\ new_page_html' = request.text
          /\ status_code' = request.status_code
    /\ pc' = "extract"
    /\ UNCHANGED <<page_files, web, settings, delays, page, caller, next_page, sleep_seconds,
                   page_name, new_page_readable, old_page_readable, log, outbox,
                   files_at_start, last_html, last_file>>

\* Lines 140-142: requests.get or request.text raises.
RequestsGetRaises ==
    /\ pc = "fetch"
    /\ \E took \in delays : Elapse(took)
    /\ pc' = "except"
    /\ UNCHANGED <<page_files, web, settings, delays, page, caller, next_page, sleep_seconds,
                   page_name, new_page_html, status_code, new_page_readable,
                   old_page_readable, log, outbox, files_at_start, last_html,
                   last_file>>

\* Variant: an inaccessible page has its stored file emptied.
PageInaccessible_truncates ==
    /\ pc = "except"
    /\ LET message == Message(page_name, "Page inaccessible", <<>>)
       IN send_email(message, Append(log, LogRecord("error", message)))
    /\ pc' = "return"
    /\ page_files' = Put(page_files, page_name, <<>>)
    /\ UNCHANGED <<pages_to_check, web, settings, delays, page, caller, next_page,
                   next_page_time_due, sleep_seconds, page_name, new_page_html, status_code,
                   new_page_readable, old_page_readable, started_at, selected_at,
                   files_at_start, last_html, last_file>>

\* Lines 143-145: logged, mailed, and check_change returns.
PageInaccessible ==
    /\ pc = "except"
    /\ LET message == Message(page_name, "Page inaccessible", <<>>)
       IN send_email(message, Append(log, LogRecord("error", message)))
    /\ pc' = "return"
    /\ UNCHANGED <<pages_to_check, page_files, web, settings, delays, page, caller, next_page,
                   next_page_time_due, sleep_seconds, page_name, new_page_html, status_code,
                   new_page_readable, old_page_readable, started_at, selected_at,
                   files_at_start, last_html, last_file>>

\* Line 147.
ExtractNew ==
    /\ pc = "extract"
    /\ new_page_readable' = get_readable_page(new_page_html)
    /\ pc' = "exists"
    /\ UNCHANGED <<pages_to_check, page_files, web, settings, delays, page, caller, next_page,
                   next_page_time_due, sleep_seconds, page_name, new_page_html, status_code,
                   old_page_readable, log, outbox, started_at, selected_at,
                   files_at_start, last_html, last_file>>

\* Line 147: BeautifulSoup raises (no parser, recursion limit).
ExtractNewRaises ==
    /\ pc = "extract"
    /\ Terminate
    /\ UNCHANGED <<settings, page_files>>

\* os.path.exists(page_file_path)
path_exists(files, p) == p \in DOMAIN files

\* Variant: a page without a stored file is compared with an empty page.
CreatedInitialPage_diffs_empty ==
    /\ pc = "exists"
    /\ ~path_exists(page_files, page_name)
    /\ old_page_readable' = get_readable_page(<<>>)
    /\ pc' = "compare"
    /\ UNCHANGED <<pages_to_check, page_files, web, settings, delays, page, caller,
                   next_page, next_page_time_due, sleep_seconds, page_name,
                   new_page_html, status_code, new_page_readable, log, outbox, started_at,
                   selected_at, files_at_start, last_html, last_file>>

\* Lines 149-154: without a stored page, "Created initial page".
CreatedInitialPage ==
    /\ pc = "exists"
    /\ ~path_exists(page_files, page_name)
    /\ LET message == Message(page_name, "Created initial page", <<>>)
       IN send_email(message, Append(log, LogRecord("info", message)))
    /\ pc' = "write"
    /\ UNCHANGED <<pages_to_check, page_files, web, settings, delays, page, caller, next_page,
                   next_page_time_due, sleep_seconds, page_name, new_page_html, status_code,
                   new_page_readable, old_page_readable, started_at, selected_at,
                   files_at_start, last_html, last_file>>

\* The text get_readable_page is given for the stored page.
old_page_html(files, p) == TextRead(files[p])

\* Lines 155-158: the stored page is read and made readable.
ReadOldPage ==
    /\ pc = "exists"
    /\ path_exists(page_files, page_name)
    /\ old_page_readable' = get_readable_page(old_page_html(page_files, page_name))
    /\ pc' = "compare"
    /\ UNCHANGED <<pages_to_check, page_files, web, settings, delays, page, caller, next_page,
                   next_page_time_due, sleep_seconds, page_name, new_page_html, status_code,
                   new_page_readable, log, outbox, started_at, selected_at,
                   files_at_start, last_html, last_file>>

\* Lines 156-158: open, read or BeautifulSoup raises.
ReadOldPageRaises ==
    /\ pc = "exists"
    /\ path_exists(page_files, page_name)
    /\ Terminate
    /\ UNCHANGED <<settings, page_files>>

\* Variant: the new text is compared with itself.
SameReadable_self(old, new) == new = new

\* Variant: the comparison is negated.
SameReadable_negated(old, new) == old # new

\* old_page_readable == new_page_readable
SameReadable(old, new) == old = new

\* Lines 160-161.
NoChange ==
    /\ pc = "compare"
    /\ SameReadable(old_page_readable, new_page_readable)
    /\ log' = Append(log, LogRecord("info", Message(page_name, "No change", <<>>)))
    /\ pc' = "write"
    /\ UNCHANGED <<pages_to_check, page_files, web, settings, delays, page, caller, next_page,
                   next_page_time_due, sleep_seconds, page_name, new_page_html, status_code,
                   new_page_readable, old_page_readable, outbox, started_at,
                   selected_at, files_at_start, last_html, last_file>>

\* Variant: the arguments of ndiff are swapped.
differences_swapped(old, new) == ndiff(splitlines(new), splitlines(old))

\* Lines 163-164.
differences(old, new) == ndiff(splitlines(old), splitlines(new))

\* Lines 162-177.
PageChanged ==
    /\ pc = "compare"
    /\ ~SameReadable(old_page_readable, new_page_readable)
    /\ LET message == Message(page_name, "Page changed",
                              differences(old_page_readable, new_page_readable))
       IN send_email(message, Append(log, LogRecord("info", message)))
    /\ pc' = "write"
    /\ UNCHANGED <<pages_to_check, page_files, web, settings, delays, page, caller, next_page,
                   next_page_time_due, sleep_seconds, page_name, new_page_html, status_code,
                   new_page_readable, old_page_readable, started_at, selected_at,
                   files_at_start, last_html, last_file>>

\* Variant: the readable text is stored, not the raw content.
WrittenFiles_readable(files, p, html) == Put(files, p, TextWrite(get_readable_page(html)))

\* Variant: every page is written to the file of the first page.
WrittenFiles_one_file(files, p, html) == Put(files, 1, TextWrite(html))

\* page_output_file.write(new_page_html)
WrittenFiles(files, p, html) == Put(files, p, TextWrite(html))

\* Lines 179-180, and check_change returns.
WriteFile ==
    /\ pc = "write"
    /\ page_files' = WrittenFiles(page_files, page_name, new_page_html)
    /\ pc' = "return"
    /\ UNCHANGED <<pages_to_check, web, settings, delays, page, caller, next_page,
                   next_page_time_due, sleep_seconds, page_name, new_page_html, status_code,
                   new_page_readable, old_page_readable, log, outbox, started_at,
                   selected_at, files_at_start, last_html, last_file>>

\* Lines 179-180: open raises and the file is as it was, or write raises
\* and leaves the file open() has truncated.
WriteFileRaises ==
    /\ pc = "write"
    /\ \E truncated \in BOOLEAN :
          page_files' = IF truncated THEN Put(page_files, page_name, <<>>)
                        ELSE page_files
    /\ Terminate
    /\ UNCHANGED settings

\* check_change returns to the loop that called it; its locals are gone.
\* The history takes note of a good fetch.
Return ==
    /\ pc = "return"
    /\ pc' = caller
    /\ page_name' = 0
    /\ new_page_html' = Undefined
    /\ status_code' = 0
    /\ new_page_readable' = Undefined
    /\ old_page_readable' = Undefined
    /\ log' = <<>>
    /\ outbox' = <<>>
    /\ started_at' = None
    /\ files_at_start' = <<>>
    /\ IF new_page_html # Undefined
       THEN /\ last_html' = Put(last_html, page_name, new_page_html)
            /\ last_file' = Put(last_file, page_name, page_files[page_name])
       ELSE UNCHANGED <<last_html, last_file>>
    /\ UNCHANGED <<pages_to_check, page_files, web, settings, delays, page, caller,
                   next_page, next_page_time_due, sleep_seconds, selected_at>>

\* ---------------------------------------------------------- specifications
\* The files PAGES_DIR holds at the start were written by earlier runs of
\* the program: each holds what the last good fetch of its page returned.
StartOfMain ==
    /\ pages_to_check = <<>>
    /\ pc = "config"
    /\ page = 0
    /\ caller = "for"
    /\ next_page = 0
    /\ next_page_time_due = None
    /\ sleep_seconds = 0
    /\ page_name = 0
    /\ new_page_html = Undefined
    /\ status_code = 0
    /\ new_page_readable = Undefined
    /\ old_page_readable = Undefined
    /\ log = <<>>
    /\ outbox = <<>>
    /\ started_at = None
    /\ selected_at = None
    /\ files_at_start = <<>>
    /\ last_html = page_files
    /\ last_file = page_files

InitWith(inis, codes, contents, hours) ==
    /\ settings \in inis
    /\ web = Responses(codes, contents)
    /\ delays = hours
    /\ page_files \in PartialFns(1 .. Len(settings.sections), contents)
    /\ StartOfMain

\* Every settings.ini; each page has one of two versions, served with
\* success; a fetch takes up to MaxDelay hours and a sleep runs over by as
\* much.
Init == InitWith(Settings, {HTTP_OK}, PageVersions, 0 .. MaxDelay)

\* One page checked every hour; it serves every raw content of the bound,
\* with success or as an error page, at once.
ContentInit == InitWith({HourlySettings}, StatusCodes, RawContents, {0})

Next ==
    \/ ReadConfig
    \/ ForNext
    \/ ForEnd
    \/ SelectNext
    \/ Sleep
    \/ StampNext
    \/ RequestsGet
    \/ RequestsGetRaises
    \/ PageInaccessible
    \/ ExtractNew
    \/ ExtractNewRaises
    \/ CreatedInitialPage
    \/ ReadOldPage
    \/ ReadOldPageRaises
    \/ NoChange
    \/ PageChanged
    \/ WriteFile
    \/ WriteFileRaises
    \/ Return

Spec == Init /\ [][Next]_vars

\* Every settings.ini of MaxPages pages whose intervals are the shortest
\* or the longest of the bound; the pages all serve one content and either
\* none is stored yet or an older version of each is; a fetch takes no time
\* or MaxDelay hours, and a sleep runs over by as much.
LiveInit ==
    /\ settings \in LiveSettings
    /\ web = Responses({HTTP_OK}, {<<"a">>})
    /\ delays = {0, MaxDelay}
    /\ page_files \in {<<>>, [p \in 1 .. Len(settings.sections) |-> <<"b">>]}
    /\ StartOfMain

\* The process is the only one and runs on: a statement it can execute is
\* executed, a sleep ends, and a fetch returns or raises.
LiveSpec == LiveInit /\ [][Next]_vars /\ WF_vars(Next)

\* The first check of one page has come to line 160 with a stored page of
\* up to MaxDiffLines lines and a fetched page of as many, both served as
\* they read.
DiffInit ==
    /\ \E old, new \in SeqsUpTo(DiffLines, MaxDiffLines) :
          /\ old_page_readable = join(old)
          /\ new_page_readable = join(new)
    /\ new_page_html = new_page_readable
    /\ page_files = <<old_page_readable>>
    /\ files_at_start = page_files
    /\ last_html = page_files
    /\ last_file = page_files
    /\ settings = NoSettings
    /\ pages_to_check = Stamp(<<CheckPage(1)>>, 1, now)
    /\ web = Responses({HTTP_OK}, {new_page_html})
    /\ delays = {0}
    /\ pc = "compare"
    /\ page = 1
    /\ caller = "for"
    /\ next_page = 0
    /\ next_page_time_due = None
    /\ sleep_seconds = 0
    /\ page_name = 1
    /\ status_code = HTTP_OK
    /\ log = <<>>
    /\ outbox = <<>>
    /\ started_at = now
    /\ selected_at = None

\* The first check of one page without a stored file has fetched a markup
\* of up to MaxMarkupLen characters and tags and has come to line 147.
ExtractInit ==
    /\ new_page_html \in SeqsUpTo(MarkupChars, MaxMarkupLen)
    /\ new_page_readable = Undefined
    /\ old_page_readable = Undefined
    /\ page_files = <<>>
    /\ files_at_start = page_files
    /\ last_html = page_files
    /\ last_file = page_files
    /\ settings = NoSettings
    /\ pages_to_check = Stamp(<<CheckPage(1)>>, 1, now)
    /\ web = Responses({HTTP_OK}, {new_page_html})
    /\ delays = {0}
    /\ pc = "extract"
    /\ page = 1
    /\ caller = "for"
    /\ next_page = 0
    /\ next_page_time_due = None
    /\ sleep_seconds = 0
    /\ page_name = 1
    /\ status_code = HTTP_OK
    /\ log = <<>>
    /\ outbox = <<>>
    /\ started_at = now
    /\ selected_at = None

\* Line 147, without an exception.
ExtractNext == ExtractNew

ExtractSpec == ExtractInit /\ [][ExtractNext]_vars

\* Lines 160-177.
DiffNext == NoChange \/ PageChanged

DiffSpec == DiffInit /\ [][DiffNext]_vars

ContentSpec == ContentInit /\ [][Next]_vars

\* ------------------------------------------------------------ vocabulary
\* The kind of the change event of the current check: what it has logged.
Outcome ==
    IF log = <<>> THEN "none"
    ELSE CASE log[1].message.text = "Page inaccessible" -> "inaccessible"
           [] log[1].message.text = "Created initial page" -> "created"
           [] log[1].message.text = "No change" -> "unchanged"
           [] log[1].message.text = "Page changed" -> "changed"
           [] OTHER -> "none"

\* A call of check_change is under way (at "return" it has done its work).
InCheck == pc \in {"fetch", "except", "extract", "exists", "compare", "write", "return"}

\* The fetch of the current check succeeded.
Fetched == new_page_html # Undefined

\* The page under check had a stored file when the check started.
HadBaseline == page_name \in DOMAIN files_at_start

Max(x, y) == IF x >= y THEN x ELSE y

\* send_email has logged a failure in the current check.
NotificationFailed ==
    \E n \in 1 .. Len(log) : log[n].message.text = "Unable to send email"

\* ----------------------------------------------------------------- claims

\* C1: with a good fetch and a stored baseline, the check says "unchanged"
\* exactly when the readable lines of the fetched content equal those of the
\* baseline as stored when the check started, and "changed" otherwise; the
\* file is not written before that comparison is made.
C1_ComparesWithOldBaseline ==
    /\ pc \in {"fetch", "except", "extract", "exists", "compare", "write"}
          => page_files = files_at_start
    /\ (pc \in {"write", "return"} /\ Fetched /\ HadBaseline)
          => /\ Outcome \in {"unchanged", "changed"}
             /\ (Outcome = "unchanged") <=>
                   (ReadableLines(files_at_start[page_name])
                        = ReadableLines(new_page_html))

\* C1 witness: a check ends "unchanged" though the raw contents differ.
C1_Witness ==
    /\ pc = "return"
    /\ HadBaseline
    /\ Outcome = "unchanged"
    /\ files_at_start[page_name] # new_page_html

\* C2: when a check with a good fetch has returned, the stored file of its
\* page holds the raw content that check fetched; the file of every other
\* page holds the raw content of the last good fetch of that page.
C2_BaselineIsLatestFetch ==
    /\ (pc = "return" /\ Fetched)
          => /\ Outcome \in {"created", "changed", "unchanged"}
             /\ page_name \in DOMAIN page_files
             /\ page_files[page_name] = new_page_html
    /\ \A p \in DOMAIN last_html :
          (p # page_name \/ pc \notin {"write", "return"})
             => (p \in DOMAIN page_files /\ page_files[p] = last_html[p])

\* C2 witness: an "unchanged" check has replaced a stored file whose raw
\* content differed from the content fetched.
C2_Witness ==
    /\ pc = "return"
    /\ Outcome = "unchanged"
    /\ files_at_start[page_name] # new_page_html
    /\ page_files[page_name] = new_page_html

\* C3: a check whose fetch raised leaves every stored file as it was when
\* the check started, none created and none removed, and hands exactly one
\* "Page inaccessible" message to send_email.
C3_InaccessibleKeepsFiles ==
    /\ pc = "except" => page_files = files_at_start
    /\ (pc = "return" /\ ~Fetched)
          => /\ Outcome = "inaccessible"
             /\ page_files = files_at_start
             /\ Len(outbox) = 1
             /\ outbox[1].body = Message(page_name, "Page inaccessible", <<>>)

\* C3 witness: an inaccessible check of a page that has a stored file.
C3_Witness ==
    /\ pc = "return"
    /\ Outcome = "inaccessible"
    /\ HadBaseline
    /\ page_files[page_name] = files_at_start[page_name]

\* C4: an unexpected failure inside a check never ends the process.
C4_LoopNeverEnds == pc # "terminated"

\* C5: from the moment a check starts until it has returned, whatever its
\* outcome, the due time of its page is the time the check started plus the
\* interval of the page; and a page the while loop is about to check is due.
C5_RescheduledFromStart ==
    /\ InCheck
          => time_due(pages_to_check[page_name])
                = started_at + pages_to_check[page_name].check_interval_hours
    /\ pc = "stamp" => time_due(pages_to_check[next_page]) <= now

\* C5 witness: an inaccessible check of the while loop returns after time
\* has passed since it started.
C5_Witness ==
    /\ pc = "return"
    /\ caller = "while"
    /\ Outcome = "inaccessible"
    /\ started_at < now

\* C6: the page the while loop has chosen has the smallest due time of all
\* pages, and of the pages with that due time it is the first of the list.
C6_ChoosesEarliestDue ==
    pc \in {"sleep", "stamp"}
       => /\ next_page \in Pages
          /\ next_page_time_due = time_due(pages_to_check[next_page])
          /\ \A q \in Pages :
                /\ time_due(pages_to_check[next_page]) <= time_due(pages_to_check[q])
                /\ time_due(pages_to_check[q]) = time_due(pages_to_check[next_page])
                      => next_page <= q

\* C6 witness: the chosen page shares its due time with a later page.
C6_Witness ==
    /\ pc = "stamp"
    /\ \E q \in Pages :
          /\ q > next_page
          /\ time_due(pages_to_check[q]) = time_due(pages_to_check[next_page])

\* C7: the sleep asked for is the time left until the chosen page is due,
\* when that is positive, and there is no sleep otherwise; the check starts
\* no earlier than the due time, and at once when the page was already due.
C7_WaitsUntilDue ==
    /\ pc \in {"sleep", "stamp"}
          => sleep_seconds = next_page_time_due - selected_at
    /\ pc = "sleep" => (selected_at = now /\ sleep_seconds > 0)
    /\ pc = "stamp"
          => /\ next_page_time_due <= now
             /\ now - selected_at >= Max(0, sleep_seconds)
             /\ sleep_seconds <= 0 => selected_at = now

\* C7 witness: the chosen page was overdue when chosen; no time has passed.
C7_Witness ==
    /\ pc = "stamp"
    /\ sleep_seconds < 0
    /\ selected_at = now

\* C8 as stated: a check of a page without a stored file ends "created".
C8_AlwaysCreated ==
    (pc = "return" /\ ~HadBaseline) => Outcome = "created"

\* C8 amended: a check of a page without a stored file never reads an old
\* page, never computes a diff and never ends "unchanged" or "changed"; when
\* its fetch succeeded it ends "created", when its fetch raised,
\* "inaccessible".
C8_FirstCheck ==
    (InCheck /\ ~HadBaseline)
       => /\ old_page_readable = Undefined
          /\ pc # "compare"
          /\ Outcome \in {"none", "created", "inaccessible"}
          /\ \A n \in 1 .. Len(outbox) : outbox[n].body.differences = <<>>
          /\ (pc \in {"write", "return"} /\ Fetched) => Outcome = "created"
          /\ (pc = "return" /\ ~Fetched) => Outcome = "inaccessible"

\* C8 witness: a check of a page without a stored file has ended "created".
C8_Witness ==
    /\ pc = "return"
    /\ ~HadBaseline
    /\ Outcome = "created"

\* C9: when a check fetches the raw content the last good fetch of the same
\* page returned, it ends "unchanged" and the stored file is what it was
\* after that earlier check.
C9_SecondRunUnchanged ==
    (pc = "return" /\ Fetched /\ page_name \in DOMAIN last_html
        /\ last_html[page_name] = new_page_html)
       => /\ Outcome = "unchanged"
          /\ page_name \in DOMAIN page_files
          /\ page_files[page_name] = last_file[page_name]

\* C9 witness: such a second run, of a content with a carriage return (the
\* file gives it back as a line feed).
C9_Witness ==
    /\ pc = "return"
    /\ Fetched
    /\ page_name \in DOMAIN last_html
    /\ last_html[page_name] = new_page_html
    /\ Outcome = "unchanged"
    /\ \E n \in 1 .. Len(new_page_html) : new_page_html[n] = CR

\* C10: a check hands send_email no message when it ends "unchanged" and
\* exactly one, of its own kind, when it ends "created", "changed" or
\* "inaccessible"; the "changed" message carries the ndiff of the readable
\* lines of the old baseline against those of the fetched content.
C10_OneNotification ==
    /\ InCheck => Len(outbox) <= 1
    /\ pc \in {"write", "return"}
          => /\ Outcome \in {"created", "changed", "unchanged", "inaccessible"}
             /\ Outcome = "unchanged" => outbox = <<>>
             /\ Outcome = "created"
                   => outbox = <<[subject |-> EMAIL_SUBJECT,
                                  body |-> Message(page_name, "Created initial page", <<>>)]>>
             /\ Outcome = "inaccessible"
                   => outbox = <<[subject |-> EMAIL_SUBJECT,
                                  body |-> Message(page_name, "Page inaccessible", <<>>)]>>
             /\ Outcome = "changed"
                   => outbox = <<[subject |-> EMAIL_SUBJECT,
                                  body |-> Message(page_name, "Page changed",
                                      ndiff(ReadableLines(files_at_start[page_name]),
                                            ReadableLines(new_page_html)))]>>

\* C10 witness: a "changed" check has handed over one message whose diff
\* deletes a line and inserts another.
C10_Witness ==
    /\ pc = "return"
    /\ Outcome = "changed"
    /\ Len(outbox) = 1
    /\ Len(outbox[1].body.differences) = 2

\* C11: a check whose fetch failed, by an exception or by a response of a
\* status other than success, ends "inaccessible" and leaves every stored
\* file as it was when the check started.
C11_FailureIsInaccessible ==
    (pc = "return" /\ (~Fetched \/ status_code # HTTP_OK))
       => /\ Outcome = "inaccessible"
          /\ page_files = files_at_start

\* C12: a step that hands a message to send_email hands it over once,
\* leaves the stored files and the page list as they are and goes on to the
\* statement that follows the call, whether or not the sending failed; a
\* failure is logged once; and when the check has returned, the stored files
\* and the due time of its page are what the fetch and the start of the
\* check determine, whether or not a notification failed.
C12_FailureSwallowed ==
    /\ [](pc = "return"
            => /\ page_files = IF Fetched
                               THEN WrittenFiles(files_at_start, page_name, new_page_html)
                               ELSE files_at_start
               /\ time_due(pages_to_check[page_name])
                     = started_at + pages_to_check[page_name].check_interval_hours
               /\ Len(outbox) <= 1
               /\ NotificationFailed
                     => /\ Len(outbox) = 1
                        /\ Cardinality({n \in 1 .. Len(log) :
                               log[n].message.text = "Unable to send email"}) = 1)
    /\ [][Len(outbox') > Len(outbox)
             => /\ outbox = <<>>
                /\ Len(outbox') = 1
                /\ page_files' = page_files
                /\ pages_to_check' = pages_to_check
                /\ pc' = (IF pc = "except" THEN "return" ELSE "write")]_vars

\* C12 witness: a "changed" check whose notification failed has returned
\* with the fetched content stored.
C12_Witness ==
    /\ pc = "return"
    /\ NotificationFailed
    /\ Outcome = "changed"
    /\ page_files[page_name] = new_page_html

\* C13: the extraction of the fetched content never ends the check: the
\* step of line 147 goes on to the test for the stored file, with the
\* readable text of the content or, when the extraction failed, with the
\* empty text; the page list is kept for the checks to come.
C13_ExtractionFailureDegrades ==
    [][pc = "extract"
          => /\ pc' = "exists"
             /\ new_page_readable' \in {get_readable_page(new_page_html), <<>>}
             /\ pages_to_check' = pages_to_check]_vars

\* The value of check_every_x_hours, trailing 'h's aside, writes one of the
\* whole numbers 1 to 9, with or without a sign or a leading zero.
WritesPositiveHours(value) ==
    \E h \in 1 .. 9 :
       rstrip_h(value) \in {<<Digits[h + 1]>>, <<"+", Digits[h + 1]>>,
                            <<"0", Digits[h + 1]>>}

\* settings.ini has every option of the mail account and at least one page
\* section, and every page section has a url and a whole number of hours,
\* at least 1, as its interval.
IsValidConfiguration ==
    /\ settings.email = "given"
    /\ settings.sections # <<>>
    /\ \A n \in 1 .. Len(settings.sections) :
          /\ settings.sections[n].url
          /\ settings.sections[n].check_every_x_hours # Missing
          /\ WritesPositiveHours(settings.sections[n].check_every_x_hours)

\* C14: reading an invalid configuration ends the program at once, with no
\* page list, no check started, no file written and no message handed to
\* send_email; a program so ended takes no further step; and every page of
\* the page list has a whole number of hours, at least 1, as its interval.
C14_InvalidConfigNeverStarts ==
    /\ [](\A p \in Pages :
             /\ pages_to_check[p].check_interval_hours \in Nat
             /\ pages_to_check[p].check_interval_hours >= 1)
    /\ [](pc = "exit"
            => /\ pages_to_check = <<>>
               /\ page = 0
               /\ page_name = 0
               /\ new_page_html = Undefined
               /\ page_files = last_file
               /\ outbox = <<>>)
    /\ [][pc = "config" /\ ~IsValidConfiguration
             => /\ pc' \in {"exit", "terminated"}
                /\ pages_to_check' = <<>>
                /\ page_files' = page_files
                /\ outbox' = <<>>]_vars
    /\ [][pc \notin {"exit", "terminated"}]_vars

\* C14 witness: the program has ended on a configuration whose first page
\* is valid and whose second page has an interval of 0 hours.
C14_Witness ==
    /\ pc = "exit"
    /\ settings.email = "given"
    /\ Len(settings.sections) = 2
    /\ settings.sections[1] = [url |-> TRUE, check_every_x_hours |-> <<"2", "h">>]
    /\ settings.sections[2] = [url |-> TRUE, check_every_x_hours |-> <<"0">>]

\* The first for loop is running, between two checks or in one.
FirstRound == pc = "for" \/ (InCheck /\ caller = "for")

\* The while loop is running.
LaterRounds == pc \in {"while", "sleep", "stamp"} \/ (InCheck /\ caller = "while")

\* C15: in the first round the pages checked so far are the first ones of
\* the list, the page under check is the last of them, and no other page
\* has been checked; each step of the round starts, at once, the check of
\* the page that follows in the list, stored file or not; and the while
\* loop, which alone checks a page again, runs only when every page has been
\* checked.
C15_FirstRoundInOrder ==
    /\ [](FirstRound
            => /\ \A p \in Pages : (pages_to_check[p].last_checked # None) <=> (p <= page)
               /\ InCheck => page_name = page)
    /\ [](LaterRounds
            => /\ page = Len(pages_to_check)
               /\ \A p \in Pages : pages_to_check[p].last_checked # None)
    /\ [][page' # page
             => \/ pc' = "terminated"
                \/ /\ pc = "for"
                   /\ page' = page + 1
                   /\ pc' = "fetch"
                   /\ caller' = "for"
                   /\ page_name' = page'
                   /\ started_at' = now
                   /\ pages_to_check[page'].last_checked = None
                   /\ pages_to_check'[page'].last_checked = now]_vars

\* C15 witness: the second page is under its first check, it has a stored
\* file, and the first page is due again.
C15_Witness ==
    /\ InCheck
    /\ caller = "for"
    /\ page_name = 2
    /\ HadBaseline
    /\ time_due(pages_to_check[1]) <= now

\* The diff of the message the current check has handed to send_email.
SentDiff == outbox[1].body.differences

Tag(line) == line[1]

Content(line) == SubSeq(line, 3, Len(line))

\* The contents of the lines of d whose tag is one of tags, in order.
RECURSIVE Tagged(_, _)
Tagged(d, tags) ==
    IF d = <<>> THEN <<>>
    ELSE (IF Tag(Head(d)) \in tags THEN <<Content(Head(d))>> ELSE <<>>)
         \o Tagged(Tail(d), tags)

\* Positions i and j of d lie in one run of deleted and inserted lines.
SameRun(d, i, j) == \A n \in i .. j : Tag(d[n]) \in {"-", "+"}

\* The number of lines of tag t in the run of d that holds position i.
RunCount(d, i, t) ==
    Cardinality({n \in 1 .. Len(d) :
        Tag(d[n]) = t /\ SameRun(d, IF n < i THEN n ELSE i, Max(n, i))})

\* The diff of the old lines A, B, C against the new lines A, X, C.
ReplacesBByX(d) ==
    d = <<<<SP, SP, "A">>, <<"-", SP, "B">>, <<"+", SP, "X">>, <<SP, SP, "C">>>>

\* The current check has compared two pages, found them changed and handed
\* the diff to send_email.
DiffSent == pc = "write" /\ Outcome = "changed" /\ Len(outbox) = 1

FirstLF(text) ==
    CHOOSE k \in 1 .. Len(text) : text[k] = LF /\ \A n \in 1 .. k - 1 : text[n] # LF

\* The lines of a text whose lines end at its line feeds.
RECURSIVE LinesOf(_)
LinesOf(text) ==
    IF text = <<>> THEN <<>>
    ELSE IF \E k \in 1 .. Len(text) : text[k] = LF
    THEN <<SubSeq(text, 1, FirstLF(text) - 1)>>
         \o LinesOf(SubSeq(text, FirstLF(text) + 1, Len(text)))
    ELSE <<text>>

\* A line without the whitespace at its ends.
RECURSIVE TrimLeft(_)
TrimLeft(line) ==
    IF line # <<>> /\ Head(line) \in Whitespace THEN TrimLeft(Tail(line)) ELSE line

Trim(line) == rstrip_whitespace(TrimLeft(line))

IsNonEmpty(line) == line # <<>>

\* The trimmed lines of a text, those left empty dropped.
TrimmedLines(text) ==
    SelectSeq([n \in 1 .. Len(splitlines(text)) |-> Trim(splitlines(text)[n])], IsNonEmpty)

\* C17: the readable text of a fetched markup is made of lines none of
\* which is empty or begins or ends with a whitespace character, tabs
\* included: they are the lines of the text of the markup, each without the
\* whitespace at its ends, in their order, those left empty dropped.
C17_TrimmedNonEmptyLines ==
    pc = "exists"
       => /\ \A n \in 1 .. Len(LinesOf(new_page_readable)) :
                /\ LinesOf(new_page_readable)[n] # <<>>
                /\ Head(LinesOf(new_page_readable)[n]) \notin Whitespace
                /\ LinesOf(new_page_readable)[n][Len(LinesOf(new_page_readable)[n])]
                      \notin Whitespace
          /\ LinesOf(new_page_readable) = TrimmedLines(get_text(new_page_html))

\* The check of page p starts.
CheckStarts(p) == pc = "fetch" /\ page_name = p

\* The program has ended: on its configuration, or by an uncaught exception.
Ended == pc \in {"exit", "terminated"}

\* C18: unless the program ends, the check of every page of the page list
\* starts again and again, whatever the intervals of the pages and whatever
\* time, up to the bound, the fetches take and the sleeps run over.
C18_NoStarvation ==
    \A p \in 1 .. MaxPages :
       []<>(Ended \/ pc = "config" \/ p \notin Pages \/ CheckStarts(p))

\* C18 witness: in the while loop, the check of the second page starts
\* while the first page, of a shorter interval, is already due again.
C18_Witness ==
    /\ CheckStarts(2)
    /\ caller = "while"
    /\ pages_to_check[1].check_interval_hours < pages_to_check[2].check_interval_hours
    /\ time_due(pages_to_check[1]) <= now

\* Page q has the same stored file, or none, in both file stores.
SameFile(before, after, q) ==
    /\ q \in DOMAIN before <=> q \in DOMAIN after
    /\ q \in DOMAIN before => before[q] = after[q]

\* C19: while a page is under check, every other page has the stored file,
\* or none, that it had when the check started; and a step that starts a
\* check or belongs to one leaves the stored file of every other page as it
\* is and, unless it ends the process, its interval too, and its
\* last-checked time at the same moment of the clock (the step may take
\* time, which moves every timestamp alike).
C19_OtherPagesUntouched ==
    /\ [](InCheck
            => \A q \in Pages \ {page_name} : SameFile(files_at_start, page_files, q))
    /\ [][(pc \in {"for", "stamp"} \/ InCheck) /\ pc' # "terminated"
             => \E h \in 0 .. MaxDelay :
                   \A q \in Pages \ {IF InCheck THEN page_name ELSE page_name'} :
                      /\ SameFile(page_files, page_files', q)
                      /\ pages_to_check'[q].check_interval_hours
                            = pages_to_check[q].check_interval_hours
                      /\ pages_to_check'[q].last_checked
                            = Ago(pages_to_check[q].last_checked, h)]_vars
    /\ [][InCheck /\ pc' = "terminated"
             => \A q \in DOMAIN files_at_start \cup DOMAIN page_files :
                   q # page_name => SameFile(page_files, page_files', q)]_vars

\* C19 witness: the check of the second page has taken time and has
\* replaced its stored file by another content, and the first page has a
\* stored file.
C19_Witness ==
    /\ pc = "return"
    /\ page_name = 2
    /\ started_at < now
    /\ HadBaseline
    /\ page_files[2] # files_at_start[2]
    /\ 1 \in DOMAIN page_files
    /\ pages_to_check[1].last_checked < started_at

====
